---- MODULE Spec2Model ----
(***************************************************************************)
(* A model of phosphor-di (src/src/index.ts): the Container with its       *)
(* registry of resolvers, cycle detection at registration, and the         *)
(* promise-based resolution walk with Transient and Singleton resolvers.   *)
(*                                                                         *)
(* Promises are modelled as the ES2015 runtime runs them: a heap of        *)
(* promise records, reactions attached by `then`, and one FIFO job queue   *)
(* (the microtask queue).  One step of the model is either a call made by  *)
(* consumer code (register, resolve), one job of the queue, or the         *)
(* settlement of a promise that a create() handed back.                    *)
(***************************************************************************)
EXTENDS Integers, Sequences, FiniteSets, TLC

\* ------------------------------------------------------------------ bounds
\* Container.resolve calls made by consumer code in one run of Spec.
MaxResolves == 2
\* Container.register calls made by consumer code in one run of Spec.
MaxRegisters == 2
\* create() invocations of one run that hand back a promise instead of an
\* instance (the others return or throw at once).
MaxAsync == 1
\* Container.register calls in one run of SpecRegister.
MaxRegisterCalls == 4

\* ------------------------------------------------------------ input sets
\* The tokens of the test-suite.
Tokens == {"IFoo", "IBar", "IBaz"}

\* `lifetime?: Lifetime`: either enum member, or left out of the descriptor.
Lifetimes == {"Singleton", "Transient", "Default"}

\* IFactory descriptors are a lifetime and an ordered requires array.  What
\* create() does is chosen when it is invoked (see RunJob).
\* Every descriptor with at most two required tokens:
Factories ==
    [lifetime : Lifetimes,
     requires : {<<>>} \cup {<<a>> : a \in Tokens} \cup {<<a, b>> : a, b \in Tokens}]

\* The descriptors of the test-suite ...
barFactory == [lifetime |-> "Default", requires |-> <<>>]

Foo == [lifetime |-> "Transient", requires |-> <<"IBar">>]

bazFactory == [lifetime |-> "Default", requires |-> <<"IBaz">>]

\* ... and two more: a transient one without dependencies and a singleton
\* one with two.
freshFactory == [lifetime |-> "Transient", requires |-> <<>>]

pairFactory == [lifetime |-> "Singleton", requires |-> <<"IBar", "IBaz">>]

\* What the consumer code of Spec calls the container with.
SpecTokens == {"IBar", "IBaz"}

SpecFactories == {barFactory, Foo, bazFactory, freshFactory, pairFactory}

NoFactory == [lifetime |-> "none", requires |-> <<>>]

\* ----------------------------------------------------------------- values
\* Run-time values: null, an instance made by a create(), an Error thrown by
\* a create(), the Error of rejectUnregistered, or the array Promise.all
\* fulfils with.  `id` is the object's identity.
NoVal == [kind |-> "none", id |-> 0, token |-> "-", by |-> NoFactory, args |-> <<>>]

Inst(id, factory, args) ==
    [kind |-> "inst", id |-> id, token |-> "-", by |-> factory, args |-> args]

CreateError(id, factory) ==
    [kind |-> "createError", id |-> id, token |-> "-", by |-> factory, args |-> <<>>]

ListVal(ids) ==
    [kind |-> "list", id |-> 0, token |-> "-", by |-> NoFactory, args |-> ids]

VARIABLES
    registry,   \* Container._registry: token -> resolver (or NoResolver)
    heap,       \* the promises allocated so far, by id
    jobs,       \* the promise job queue (microtasks), FIFO
    nextId,     \* identity of the next object a create() or `new Error` makes
    attempts,   \* history: one record per resolveFactory invocation
    calls,      \* history: one record per Container.resolve call
    diag,       \* the last line written to console.error by register
    nregs,      \* history: the number of Container.register calls
    registry2,  \* the _registry of a second Container in the same program
    otherCalls, \* history: the numbers of the resolve calls made on it
    otherRegs   \* history: the numbers of the register calls made on it

vars == <<registry, heap, jobs, nextId, attempts, calls, diag, nregs,
          registry2, otherCalls, otherRegs>>

\* -------------------------------------------------------------- resolvers
\* An IResolver: the factory it manages and, for a SingletonResolver, its
\* three private fields.  `promise` is a heap id, 0 for null.  A
\* TransientResolver has no field but the factory: the three stay as made.
NoResolver ==
    [bound |-> FALSE, factory |-> NoFactory,
     value |-> NoVal, resolved |-> FALSE, promise |-> 0]

createResolver(factory) ==
    [bound |-> TRUE, factory |-> factory,
     value |-> NoVal, resolved |-> FALSE, promise |-> 0]

\* factory.lifetime === Lifetime.Transient picks the TransientResolver,
\* anything else the SingletonResolver.
IsTransient(resolver) == resolver.factory.lifetime = "Transient"

IsSingleton(reg, token) == reg[token].bound /\ ~IsTransient(reg[token])

createRegistry == [t \in Tokens |-> NoResolver]

isRegistered(reg, token) == reg[token].bound

\* ------------------------------------------------------- the requires graph
\* The tokens a requires array names.
Range(seq) == {seq[i] : i \in DOMAIN seq}

\* The tokens reached from `start` along the requires of bound tokens
\* (start included), after n more rounds.
RECURSIVE ReachFrom(_, _, _)
ReachFrom(reg, start, n) ==
    IF n = 0 THEN start
    ELSE ReachFrom(reg,
                   start \cup UNION {Range(reg[t].factory.requires) :
                                        t \in {u \in start : reg[u].bound}},
                   n - 1)

Reach(reg, start) == ReachFrom(reg, start, Cardinality(Tokens))

\* The required tokens, direct or transitive, that have no binding.
Missing(reg, requires) == {t \in Reach(reg, Range(requires)) : ~reg[t].bound}

\* --------------------------------------------------------- cycle detection
\* visit(factory) of findCycle, from the i-th entry of `requires` on, with
\* the trace as it stands: the result is what visit returns and the trace
\* it leaves behind.
RECURSIVE visitFrom(_, _, _, _, _)
visitFrom(reg, token, requires, i, trace) ==
    IF i > Len(requires) THEN [found |-> FALSE, trace |-> trace]
    ELSE LET other  == requires[i]
             pushed == Append(trace, other)
         IN  IF other = token THEN [found |-> TRUE, trace |-> pushed]
             ELSE LET resolver == reg[other]
                      sub == IF resolver.bound
                             THEN visitFrom(reg, token, resolver.factory.requires, 1, pushed)
                             ELSE [found |-> FALSE, trace |-> pushed]
                  IN  IF sub.found THEN sub
                      ELSE visitFrom(reg, token, requires, i + 1,
                                     SubSeq(sub.trace, 1, Len(sub.trace) - 1))

\* Shallow variant: only a factory that requires its own token counts as a cycle.
findCycleDirect(reg, token, factory) ==
    IF token \in Range(factory.requires) THEN <<token>> ELSE <<>>

\* Eager variant: a required token without a binding is taken for a cycle too.
findCycleEager(reg, token, factory) ==
    IF \E i \in DOMAIN factory.requires : ~reg[factory.requires[i]].bound
    THEN <<factory.requires[1]>>
    ELSE visitFrom(reg, token, factory.requires, 1, <<>>).trace

\* Variant of visit that leaves the tokens of abandoned branches in the trace.
RECURSIVE visitKeeping(_, _, _, _, _)
visitKeeping(reg, token, requires, i, trace) ==
    IF i > Len(requires) THEN [found |-> FALSE, trace |-> trace]
    ELSE LET other  == requires[i]
             pushed == Append(trace, other)
         IN  IF other = token THEN [found |-> TRUE, trace |-> pushed]
             ELSE LET resolver == reg[other]
                      sub == IF resolver.bound
                             THEN visitKeeping(reg, token, resolver.factory.requires, 1, pushed)
                             ELSE [found |-> FALSE, trace |-> pushed]
                  IN  IF sub.found THEN sub
                      ELSE visitKeeping(reg, token, requires, i + 1, sub.trace)

findCycleKeeping(reg, token, factory) ==
    IF visitKeeping(reg, token, factory.requires, 1, <<>>).found
    THEN visitKeeping(reg, token, factory.requires, 1, <<>>).trace
    ELSE <<>>

\* Variant that looks for the token among all the requires of the candidate
\* before it descends.
findCycleNearest(reg, token, factory) ==
    IF token \in Range(factory.requires) THEN <<token>>
    ELSE visitFrom(reg, token, factory.requires, 1, <<>>).trace

findCycle(reg, token, factory) ==
    visitFrom(reg, token, factory.requires, 1, <<>>).trace

\* ------------------------------------------------------------ diagnostics
NoDiag == [kind |-> "none", token |-> "-", cycle |-> <<>>]

logRegisterError(token) == [kind |-> "registered", token |-> token, cycle |-> <<>>]

logCycleError(token, cycle) == [kind |-> "cycle", token |-> token, cycle |-> cycle]

\* ------------------------------------------------------------ registration
\* Variant with no cycle detection before the binding is added.
registerResultUnchecked(reg, d, token, factory) ==
    IF reg[token].bound
    THEN [reg |-> reg, diag |-> logRegisterError(token)]
    ELSE [reg |-> [reg EXCEPT ![token] = createResolver(factory)], diag |-> d]

\* Variant where a second registration replaces the binding.
registerResultOverwrite(reg, d, token, factory) ==
    IF Len(findCycle(reg, token, factory)) > 0
    THEN [reg |-> reg, diag |-> logCycleError(token, findCycle(reg, token, factory))]
    ELSE [reg |-> [reg EXCEPT ![token] = createResolver(factory)],
          diag |-> IF reg[token].bound THEN logRegisterError(token) ELSE d]

\* Variant that silently refuses a factory with an unregistered requirement.
registerResultStrict(reg, d, token, factory) ==
    IF reg[token].bound
    THEN [reg |-> reg, diag |-> logRegisterError(token)]
    ELSE IF Len(findCycle(reg, token, factory)) > 0
    THEN [reg |-> reg, diag |-> logCycleError(token, findCycle(reg, token, factory))]
    ELSE IF Missing(reg, factory.requires) # {}
    THEN [reg |-> reg, diag |-> d]
    ELSE [reg |-> [reg EXCEPT ![token] = createResolver(factory)], diag |-> d]

\* Container.register: the registry and the console line it leaves.
registerResult(reg, d, token, factory) ==
    IF reg[token].bound
    THEN [reg |-> reg, diag |-> logRegisterError(token)]
    ELSE LET cycle == findCycle(reg, token, factory)
         IN  IF Len(cycle) > 0
             THEN [reg |-> reg, diag |-> logCycleError(token, cycle)]
             ELSE [reg |-> [reg EXCEPT ![token] = createResolver(factory)],
                   diag |-> d]

Register(token, factory) ==
    LET r == registerResult(registry, diag, token, factory)
    IN  /\ registry' = r.reg
        /\ diag' = r.diag
        /\ nregs' = nregs + 1
        /\ UNCHANGED <<heap, jobs, nextId, attempts, calls>>
        /\ UNCHANGED <<registry2, otherCalls, otherRegs>>

\* ---------------------------------------------------------------- promises
\* A promise record.  `acc` and `remaining` are the values array and the
\* remainingElementsCount of a Promise.all result (empty and 0 otherwise);
\* `ext` marks a promise handed back by a create(), settled from outside.
\* The promises that `then` returns inside Promise.all, and the one
\* Promise.resolve wraps around a plain array element, are never read and
\* queue no job of their own: they are left out of the heap.
NewPromise(state, value, n, ext) ==
    [state |-> state, value |-> value, acc |-> [i \in 1..n |-> 0],
     remaining |-> n, reactions |-> <<>>, ext |-> ext]

\* What `then` attaches to a promise: which handler pair runs on settlement,
\* and the promise (`target`) that the handlers settle.
\*   allElem    Promise.all's resolve-element function / the all-promise's reject
\*   create     resolveFactory: dependencies => factory.create.apply(...)
\*   singleton  SingletonResolver.resolve: the value and the error handler
\*   adopt      the resolving functions of a promise resolved with a promise
Reaction(kind, target, index, factory, token, att) ==
    [kind |-> kind, target |-> target, index |-> index,
     factory |-> factory, token |-> token, att |-> att]

NoReaction == Reaction("none", 0, 0, NoFactory, "-", 0)

ReactionJob(r, ok, arg) ==
    [kind |-> "reaction", reaction |-> r, ok |-> ok, arg |-> arg, inner |-> 0]

\* NewPromiseResolveThenableJob: `target` was resolved with promise `inner`.
ThenableJob(target, inner) ==
    [kind |-> "thenable", reaction |-> Reaction("adopt", target, 0, NoFactory, "-", 0),
     ok |-> TRUE, arg |-> NoVal, inner |-> inner]

\* The machine state the synchronous code works on.
Machine == [reg |-> registry, heap |-> heap, jobs |-> jobs,
            nextId |-> nextId, attempts |-> attempts]

Alloc(m, pr) == [m EXCEPT !.heap = Append(@, pr)]

\* FulfillPromise / RejectPromise: settle and queue one job per reaction, in
\* the order the reactions were attached.  A promise that is no longer
\* pending ignores it (its resolving functions have already been called).
Settle(m, p, ok, v) ==
    LET pr == m.heap[p]
    IN  IF pr.state # "pending" THEN m
        ELSE [m EXCEPT
                !.heap[p] = [pr EXCEPT !.state = IF ok THEN "fulfilled" ELSE "rejected",
                                       !.value = v,
                                       !.reactions = <<>>],
                !.jobs = @ \o [i \in 1..Len(pr.reactions) |->
                                   ReactionJob(pr.reactions[i], ok, v)]]

\* Variant that queues nothing for a promise that has already settled.
ThenLost(m, p, r) ==
    IF m.heap[p].state = "pending"
    THEN [m EXCEPT !.heap[p].reactions = Append(@, r)]
    ELSE m

\* promise.then(...): attach to a pending promise, queue a job at once on a
\* settled one.
Then(m, p, r) ==
    LET pr == m.heap[p]
    IN  IF pr.state = "pending"
        THEN [m EXCEPT !.heap[p].reactions = Append(@, r)]
        ELSE [m EXCEPT !.jobs = Append(@, ReactionJob(r, pr.state = "fulfilled", pr.value))]

\* A result of resolveToken / resolver.resolve: a promise (p # 0) or a plain
\* value (p = 0, the cached _value of a resolved singleton).
PromiseResult(m, p) == [m |-> m, p |-> p, v |-> NoVal]

ValueResult(m, v) == [m |-> m, p |-> 0, v |-> v]

\* Variant that hands back an empty value instead of a rejected promise.
rejectUnregisteredQuiet(m, token) == ValueResult(m, NoVal)

\* rejectUnregistered: Promise.reject(new Error("Unregistered token: ..."))
rejectUnregistered(m, token) ==
    LET err == [kind |-> "unregistered", id |-> m.nextId, token |-> token,
                by |-> NoFactory, args |-> <<>>]
        m1  == Alloc([m EXCEPT !.nextId = @ + 1], NewPromise("rejected", err, 0, FALSE))
    IN  PromiseResult(m1, Len(m1.heap))

\* Promise.all(promises): subscribe to every element in order, then fulfil
\* at once when there is none.  `all` is the id of the result promise.
RECURSIVE subscribeAll(_, _, _, _)
subscribeAll(m, all, results, i) ==
    IF i > Len(results) THEN m
    ELSE LET r  == Reaction("allElem", all, i, NoFactory, "-", 0)
             m1 == IF results[i].p # 0
                   THEN Then(m, results[i].p, r)
                   ELSE [m EXCEPT !.jobs = Append(@, ReactionJob(r, TRUE, results[i].v))]
         IN  subscribeAll(m1, all, results, i + 1)

finishAll(m, all, n) ==
    PromiseResult(IF n = 0 THEN Settle(m, all, TRUE, ListVal(<<>>)) ELSE m, all)

PromiseAll(m, results) ==
    finishAll(subscribeAll(Alloc(m, NewPromise("pending", NoVal, Len(results), FALSE)),
                           Len(m.heap) + 1, results, 1),
              Len(m.heap) + 1, Len(results))

\* promise.then(handlers): the derived promise is allocated and returned,
\* the handlers (named by `kind`) are attached to promise p.
ThenDerived(m, p, kind, factory, token, att) ==
    [m |-> Then(Alloc(m, NewPromise("pending", NoVal, 0, FALSE)), p,
                Reaction(kind, Len(m.heap) + 1, 0, factory, token, att)),
     p |-> Len(m.heap) + 1, v |-> NoVal, att |-> att]

\* -------------------------------------------------------------- resolution
RECURSIVE resolveToken(_, _, _)
RECURSIVE resolveFactory(_, _, _, _)
RECURSIVE resolveRequires(_, _, _, _, _)

\* factory.requires.map(token => resolveToken(registry, token)), left to
\* right: the machine after the i-th..last calls and their results.
appendResult(r, requires, i, call, results) ==
    resolveRequires(r.m, requires, i + 1, call, Append(results, [p |-> r.p, v |-> r.v]))

resolveRequires(m, requires, i, call, results) ==
    IF i > Len(requires) THEN [m |-> m, results |-> results]
    ELSE appendResult(resolveToken(m, requires[i], call), requires, i, call, results)

\* History: a resolveFactory invocation starts, on behalf of `owner` (the
\* token whose resolver asked, or "adhoc" for Container.resolve(factory)),
\* within Container.resolve call number `call`.  `creates` counts the
\* invocations of factory.create, `outcome` is what a SingletonResolver's
\* handler saw, `deps` the results of resolving the requires.
startAttempt(m, factory, owner, call) ==
    [m EXCEPT !.attempts =
        Append(@, [owner |-> owner, factory |-> factory, call |-> call,
                   creates |-> 0, outcome |-> NoVal, all |-> 0, p |-> 0,
                   deps |-> <<>>])]

\* Promise.all(promises).then(dependencies => factory.create.apply(...))
\* History: the attempt's Promise.all promise and the promise it returns.
noteAttempt(r, att, all) ==
    [r EXCEPT !.m.attempts[att].all = all, !.m.attempts[att].p = r.p]

thenCreate(all, factory, owner, att) ==
    noteAttempt(ThenDerived(all.m, all.p, "create", factory, owner, att), att, all.p)

\* History: what the requires resolved to, in declaration order (a promise
\* id, or the cached value of a Resolved singleton).
noteDeps(r, att, results) == [r EXCEPT !.m.attempts[att].deps = results]

allOf(deps, factory, owner, att) ==
    noteDeps(thenCreate(PromiseAll(deps.m, deps.results), factory, owner, att),
             att, deps.results)

resolveFactory(m, factory, owner, call) ==
    allOf(resolveRequires(startAttempt(m, factory, owner, call),
                          factory.requires, 1, call, <<>>),
          factory, owner, Len(m.attempts) + 1)

\* Variant that does not store the promise in the resolver.
setPromiseNot(r, token) == PromiseResult(r.m, r.p)

\* SingletonResolver.resolve: `this._promise = resolveFactory(...).then(...)`
setPromise(r, token) ==
    PromiseResult([r.m EXCEPT !.reg[token].promise = r.p], r.p)

\* Variant that keeps the promise of the first resolution in the resolver and
\* hands it out again.
TransientResolveMemo(m, token, call) ==
    IF m.reg[token].promise # 0 THEN PromiseResult(m, m.reg[token].promise)
    ELSE setPromise(resolveFactory(m, m.reg[token].factory, token, call), token)

\* TransientResolver.resolve
TransientResolve(m, token, call) ==
    resolveFactory(m, m.reg[token].factory, token, call)

thenCache(r, token) ==
    setPromise(ThenDerived(r.m, r.p, "singleton", r.m.reg[token].factory, token, r.att),
               token)

\* Variant with no check of this._promise, every call before the value is cached
\* starts a creation of its own.
SingletonResolveUnshared(m, token, call) ==
    IF m.reg[token].resolved THEN ValueResult(m, m.reg[token].value)
    ELSE thenCache(resolveFactory(m, m.reg[token].factory, token, call), token)

\* Variant with no check of this._resolved, a cached value is never used.
SingletonResolveUncached(m, token, call) ==
    IF m.reg[token].promise # 0 THEN PromiseResult(m, m.reg[token].promise)
    ELSE thenCache(resolveFactory(m, m.reg[token].factory, token, call), token)

SingletonResolve(m, token, call) ==
    IF m.reg[token].resolved THEN ValueResult(m, m.reg[token].value)
    ELSE IF m.reg[token].promise # 0 THEN PromiseResult(m, m.reg[token].promise)
    ELSE thenCache(resolveFactory(m, m.reg[token].factory, token, call), token)

resolveToken(m, token, call) ==
    IF m.reg[token].bound
    THEN IF IsTransient(m.reg[token])
         THEN TransientResolve(m, token, call)
         ELSE SingletonResolve(m, token, call)
    ELSE rejectUnregistered(m, token)

\* The state of a SingletonResolver's cache, read off its private fields.
SingletonState(resolver) ==
    IF resolver.resolved THEN "Resolved"
    ELSE IF resolver.promise # 0 THEN "Pending"
    ELSE "Unresolved"

\* ------------------------------------------------------------ promise jobs
\* What an invoked create() may do: return an instance, throw, or return a
\* promise that is settled later from outside.
CreateOutcomes == {"value", "throw", "promise"}

\* resolveFactory's `then` callback (fulfilled: call create; rejected: there
\* is no rejection handler, the derived promise rejects with the reason).
createJob(m, r, ok, arg, outcome) ==
    IF ~ok THEN Settle(m, r.target, FALSE, arg)
    ELSE LET id == m.nextId
             m1 == [m EXCEPT !.nextId = @ + 1, !.attempts[r.att].creates = @ + 1]
         IN  CASE outcome = "value" ->
                    Settle(m1, r.target, TRUE, Inst(id, r.factory, arg.args))
               [] outcome = "throw" ->
                    Settle(m1, r.target, FALSE, CreateError(id, r.factory))
               [] OTHER ->
                    LET m2 == Alloc(m1, NewPromise("pending", Inst(id, r.factory, arg.args),
                                                   0, TRUE))
                    IN  [m2 EXCEPT !.jobs = Append(@, ThenableJob(r.target, Len(m2.heap)))]

\* Variant where the value handler leaves this._promise in place.
singletonFulfilledPending(m, r, value) ==
    Settle([m EXCEPT !.reg[r.token].value = value,
                     !.reg[r.token].resolved = TRUE,
                     !.attempts[r.att].outcome = value], r.target, TRUE, value)

\* SingletonResolver.resolve, the value handler.
singletonFulfilled(m, r, value) ==
    LET m1 == [m EXCEPT !.reg[r.token].value = value,
                        !.reg[r.token].promise = 0,
                        !.reg[r.token].resolved = TRUE,
                        !.attempts[r.att].outcome = value]
    IN  Settle(m1, r.target, TRUE, value)

\* Variant where the error handler leaves this._promise in place.
singletonRejectedKept(m, r, error) ==
    Settle([m EXCEPT !.attempts[r.att].outcome = error], r.target, FALSE, error)

\* Variant where the error handler drops the failed resolver from the registry.
singletonRejectedEvict(m, r, error) ==
    Settle([m EXCEPT !.reg[r.token] = NoResolver,
                     !.attempts[r.att].outcome = error], r.target, FALSE, error)

\* SingletonResolver.resolve, the error handler.
singletonRejected(m, r, error) ==
    LET m1 == [m EXCEPT !.reg[r.token].promise = 0,
                        !.attempts[r.att].outcome = error]
    IN  Settle(m1, r.target, FALSE, error)

\* Variant where a later rejection of an element replaces the reason.
allElemJobLast(m, r, ok, arg) ==
    IF ~ok
    THEN IF m.heap[r.target].state = "rejected"
         THEN [m EXCEPT !.heap[r.target].value = arg]
         ELSE Settle(m, r.target, FALSE, arg)
    ELSE LET m1 == [m EXCEPT !.heap[r.target].acc[r.index] = arg.id,
                             !.heap[r.target].remaining = @ - 1]
         IN  IF m1.heap[r.target].remaining = 0
             THEN Settle(m1, r.target, TRUE, ListVal(m1.heap[r.target].acc))
             ELSE m1

\* Variant that collects the values in the order they arrive.
allElemJobArrival(m, r, ok, arg) ==
    IF ~ok THEN Settle(m, r.target, FALSE, arg)
    ELSE LET pr == m.heap[r.target]
             m1 == [m EXCEPT !.heap[r.target].acc[Len(pr.acc) - pr.remaining + 1] = arg.id,
                             !.heap[r.target].remaining = @ - 1]
         IN  IF m1.heap[r.target].remaining = 0
             THEN Settle(m1, r.target, TRUE, ListVal(m1.heap[r.target].acc))
             ELSE m1

\* Variant where the first rejection abandons the work still queued.
allElemJobAbort(m, r, ok, arg) ==
    IF ~ok
    THEN Settle([m EXCEPT !.jobs = <<>>], r.target, FALSE, arg)
    ELSE LET m1 == [m EXCEPT !.heap[r.target].acc[r.index] = arg.id,
                             !.heap[r.target].remaining = @ - 1]
         IN  IF m1.heap[r.target].remaining = 0
             THEN Settle(m1, r.target, TRUE, ListVal(m1.heap[r.target].acc))
             ELSE m1

\* Promise.all's resolve-element function and its reject function.
allElemJob(m, r, ok, arg) ==
    IF ~ok THEN Settle(m, r.target, FALSE, arg)
    ELSE LET m1 == [m EXCEPT !.heap[r.target].acc[r.index] = arg.id,
                             !.heap[r.target].remaining = @ - 1]
         IN  IF m1.heap[r.target].remaining = 0
             THEN Settle(m1, r.target, TRUE, ListVal(m1.heap[r.target].acc))
             ELSE m1

runJob(m, job, outcome) ==
    LET r == job.reaction
    IN  CASE job.kind = "thenable" -> Then(m, job.inner, r)
          [] r.kind = "allElem"    -> allElemJob(m, r, job.ok, job.arg)
          [] r.kind = "create"     -> createJob(m, r, job.ok, job.arg, outcome)
          [] r.kind = "singleton"  -> IF job.ok THEN singletonFulfilled(m, r, job.arg)
                                      ELSE singletonRejected(m, r, job.arg)
          [] OTHER                 -> Settle(m, r.target, job.ok, job.arg)

Install(m) ==
    /\ registry' = m.reg
    /\ heap' = m.heap
    /\ jobs' = m.jobs
    /\ nextId' = m.nextId
    /\ attempts' = m.attempts

\* ------------------------------------------------------------------ actions
\* Promise.resolve(result): a promise is passed through, a plain value is
\* wrapped in a fulfilled promise.
PromiseResolve(r) ==
    IF r.p # 0 THEN r
    ELSE PromiseResult(Alloc(r.m, NewPromise("fulfilled", r.v, 0, FALSE)),
                       Len(r.m.heap) + 1)

\* The Singleton tokens, required directly or transitively, whose creation
\* is in flight.
PendingIn(reg, requires) ==
    {t \in Reach(reg, Range(requires)) :
        IsSingleton(reg, t) /\ SingletonState(reg[t]) = "Pending"}

\* History: what a Container.resolve call was given (for a token: its
\* binding), the promise it returned, the singleton state it found (`seen`),
\* the unregistered tokens its argument required then (`missing`), the
\* required singletons that were Pending then (`pending`), and the
\* resolveFactory invocations it made (attempts from+1 .. to).
Returned(r, kind, token, factory) ==
    /\ Install(r.m)
    /\ calls' = Append(calls,
           [kind |-> kind, token |-> token, factory |-> factory, p |-> r.p,
            seen |-> IF kind = "token" /\ IsSingleton(registry, token)
                     THEN SingletonState(registry[token]) ELSE "-",
            missing |-> Missing(registry, IF kind = "token" THEN <<token>>
                                          ELSE factory.requires),
            pending |-> PendingIn(registry, IF kind = "token" THEN <<token>>
                                            ELSE factory.requires),
            from |-> Len(attempts), to |-> Len(r.m.attempts)])

\* Container.resolve(token)
ResolveTokenCall(token) ==
    /\ Len(calls) < MaxResolves
    /\ Returned(PromiseResolve(resolveToken(Machine, token, Len(calls) + 1)),
                "token", token, registry[token].factory)
    /\ UNCHANGED <<diag, nregs, registry2, otherCalls, otherRegs>>

\* Variant that goes through the resolver of a token bound to the descriptor
\* when there is one.
ResolveFactoryCallBound(factory) ==
    /\ Len(calls) < MaxResolves
    /\ Returned(PromiseResolve(
                    IF \E t \in Tokens : registry[t].bound /\ registry[t].factory = factory
                    THEN resolveToken(Machine,
                                      CHOOSE t \in Tokens : /\ registry[t].bound
                                                            /\ registry[t].factory = factory,
                                      Len(calls) + 1)
                    ELSE resolveFactory(Machine, factory, "adhoc", Len(calls) + 1)),
                "factory", "-", factory)
    /\ UNCHANGED <<diag, nregs, registry2, otherCalls, otherRegs>>

\* Container.resolve(factory), an ad hoc descriptor
ResolveFactoryCall(factory) ==
    /\ Len(calls) < MaxResolves
    /\ Returned(PromiseResolve(resolveFactory(Machine, factory, "adhoc", Len(calls) + 1)),
                "factory", "-", factory)
    /\ UNCHANGED <<diag, nregs, registry2, otherCalls, otherRegs>>

\* The promises handed back by create() invocations so far.
AsyncCreates == Cardinality({q \in DOMAIN heap : heap[q].ext})

\* The runtime runs the oldest job of the queue.
RunJob ==
    /\ Len(jobs) > 0
    /\ \E outcome \in (IF AsyncCreates < MaxAsync THEN CreateOutcomes
                        ELSE CreateOutcomes \ {"promise"}) :
          Install(runJob([Machine EXCEPT !.jobs = Tail(@)], Head(jobs), outcome))
    /\ UNCHANGED <<calls, diag, nregs, registry2, otherCalls, otherRegs>>

\* A promise returned by a create() settles: with the instance, or with an error.
SettleCreate(q, ok) ==
    /\ heap[q].ext
    /\ heap[q].state = "pending"
    /\ Install(Settle(Machine, q, ok,
                      IF ok THEN heap[q].value
                      ELSE CreateError(heap[q].value.id, heap[q].value.by)))
    /\ UNCHANGED <<calls, diag, nregs, registry2, otherCalls, otherRegs>>

Init ==
    /\ registry = createRegistry
    /\ heap = <<>>
    /\ jobs = <<>>
    /\ nextId = 1
    /\ attempts = <<>>
    /\ calls = <<>>
    /\ diag = NoDiag
    /\ nregs = 0
    /\ registry2 = createRegistry
    /\ otherCalls = {}
    /\ otherRegs = {}

\* The container under consumer code that registers and resolves the
\* test-suite's descriptors under two tokens, in any order and at any point
\* between two promise jobs.
Next ==
    \/ \E token \in SpecTokens, factory \in SpecFactories :
          nregs < MaxRegisters /\ Register(token, factory)
    \/ \E token \in SpecTokens : ResolveTokenCall(token)
    \/ \E factory \in SpecFactories : ResolveFactoryCall(factory)
    \/ RunJob
    \/ \E q \in DOMAIN heap, ok \in BOOLEAN : SettleCreate(q, ok)

Spec == Init /\ [][Next]_vars

\* The runtime keeps running promise jobs while there are any, and every
\* promise handed back by a create settles.
Fairness ==
    /\ WF_vars(RunJob)
    /\ WF_vars(\E q \in DOMAIN heap, ok \in BOOLEAN : SettleCreate(q, ok))

\* The consumer code of the fair specification: the test suite's factories.
LiveFactories == {barFactory, bazFactory, Foo}

NextLive ==
    \/ \E token \in SpecTokens, factory \in LiveFactories :
          nregs < MaxRegisters /\ Register(token, factory)
    \/ \E token \in SpecTokens : ResolveTokenCall(token)
    \/ \E factory \in LiveFactories : ResolveFactoryCall(factory)
    \/ RunJob
    \/ \E q \in DOMAIN heap, ok \in BOOLEAN : SettleCreate(q, ok)

SpecLive == Init /\ [][NextLive]_vars /\ Fairness

\* ------------------------------------------------------- a second container
\* `new Container()` a second time: a registry of its own (createRegistry is
\* called per instance), the same tokens and descriptors, the same runtime
\* (promises, job queue) and console.
\* Variant with one registry for the whole module.
MachineShared == Machine

MachineOther == [Machine EXCEPT !.reg = registry2]

InstallOther(m) ==
    /\ registry2' = m.reg
    /\ heap' = m.heap
    /\ jobs' = m.jobs
    /\ nextId' = m.nextId
    /\ attempts' = m.attempts

\* Container.register on the second container
RegisterOther(token, factory) ==
    /\ registry2' = registerResult(registry2, diag, token, factory).reg
    /\ diag' = registerResult(registry2, diag, token, factory).diag
    /\ nregs' = nregs + 1
    /\ otherRegs' = otherRegs \cup {nregs + 1}
    /\ UNCHANGED <<registry, heap, jobs, nextId, attempts, calls, otherCalls>>

ReturnedOther(r, kind, token, factory) ==
    /\ InstallOther(r.m)
    /\ calls' = Append(calls,
           [kind |-> kind, token |-> token, factory |-> factory, p |-> r.p,
            seen |-> IF kind = "token" /\ IsSingleton(registry2, token)
                     THEN SingletonState(registry2[token]) ELSE "-",
            missing |-> Missing(registry2, IF kind = "token" THEN <<token>>
                                       ELSE factory.requires),
            pending |-> PendingIn(registry2, IF kind = "token" THEN <<token>>
                                         ELSE factory.requires),
            from |-> Len(attempts), to |-> Len(r.m.attempts)])
    /\ otherCalls' = otherCalls \cup {Len(calls) + 1}
    /\ UNCHANGED <<registry, diag, nregs, otherRegs>>

\* Container.resolve(token) on the second container
ResolveTokenOther(token) ==
    /\ Len(calls) < MaxResolves
    /\ ReturnedOther(PromiseResolve(resolveToken(MachineOther, token, Len(calls) + 1)),
                     "token", token, registry2[token].factory)

\* Container.resolve(factory) on the second container
ResolveFactoryOther(factory) ==
    /\ Len(calls) < MaxResolves
    /\ ReturnedOther(PromiseResolve(resolveFactory(MachineOther, factory, "adhoc",
                                                   Len(calls) + 1)),
                     "factory", "-", factory)

\* The job is a handler of a SingletonResolver of the second container
\* (the handlers close over `this`).
OnOther(job) ==
    /\ job.kind = "reaction"
    /\ job.reaction.kind = "singleton"
    /\ attempts[job.reaction.att].call \in otherCalls

\* The runtime runs the oldest job, whichever container it works for.
RunJobEither ==
    /\ Len(jobs) > 0
    /\ IF OnOther(Head(jobs))
       THEN /\ InstallOther(runJob([MachineOther EXCEPT !.jobs = Tail(@)],
                                   Head(jobs), "value"))
            /\ UNCHANGED <<registry, calls, diag, nregs, otherCalls, otherRegs>>
       ELSE RunJob

\* The descriptors shared by the two containers.
ContainerFactories == {barFactory, bazFactory, Foo}

\* Two containers under consumer code that registers and resolves the same
\* tokens and descriptors on both.
NextContainers ==
    \/ \E token \in SpecTokens, factory \in ContainerFactories :
          nregs < MaxRegisters /\ Register(token, factory)
    \/ \E token \in SpecTokens, factory \in ContainerFactories :
          nregs < MaxRegisters /\ RegisterOther(token, factory)
    \/ \E token \in SpecTokens : ResolveTokenCall(token)
    \/ \E token \in SpecTokens : ResolveTokenOther(token)
    \/ \E factory \in ContainerFactories : ResolveFactoryCall(factory)
    \/ \E factory \in ContainerFactories : ResolveFactoryOther(factory)
    \/ RunJobEither
    \/ \E q \in DOMAIN heap, ok \in BOOLEAN : SettleCreate(q, ok)

SpecContainers == Init /\ [][NextContainers]_vars

\* The container under consumer code that only registers: every descriptor
\* with up to two required tokens, under every token.
NextRegister ==
    \E token \in Tokens, factory \in Factories :
        nregs < MaxRegisterCalls /\ Register(token, factory)

SpecRegister == Init /\ [][NextRegister]_vars

\* ================================================================== claims
ErrorKinds == {"createError", "unregistered"}

Max(S) == CHOOSE x \in S : \A y \in S : y <= x

\* The resolveFactory invocations made for token t's resolver, and those of
\* them whose singleton handler has not run yet.
AttemptsOf(t) == {k \in DOMAIN attempts : attempts[k].owner = t}

InFlight(t) == {k \in AttemptsOf(t) : attempts[k].outcome.kind = "none"}

\* Call i of Container.resolve was handed promise p: it and attempt k have
\* one and the same outcome.
SameOutcome(i, k) ==
    LET pr == heap[calls[i].p]
        out == attempts[k].outcome
    IN  /\ (pr.state = "pending") <=> (out.kind = "none")
        /\ pr.state # "pending" => pr.value = out
        /\ (pr.state = "fulfilled") <=> (out.kind = "inst")
        /\ (pr.state = "rejected") <=> (out.kind \in ErrorKinds)

\* The attempt that a resolve(token) call on a singleton started or joined.
JoinedAttempt(i) ==
    IF calls[i].seen = "Unresolved" THEN calls[i].from + 1
    ELSE Max({k \in AttemptsOf(calls[i].token) : k <= calls[i].from})

\* C1: for a Singleton token at most one creation attempt is in flight at a
\* time; a resolve(token) issued while an attempt is Pending starts no
\* attempt (no resolveFactory, hence no create), and it settles exactly as
\* that attempt does: same instance on success, same error on failure, just
\* like the call that started the attempt.  create runs at most once per
\* attempt.
C1_SingleAttemptShared ==
    /\ \A t \in Tokens :
          IsSingleton(registry, t) =>
             /\ Cardinality(InFlight(t)) <= 1
             /\ \A k \in AttemptsOf(t) : attempts[k].creates <= 1
    /\ \A i \in DOMAIN calls :
          /\ calls[i].seen = "Pending" =>
                /\ calls[i].to = calls[i].from
                /\ SameOutcome(i, JoinedAttempt(i))
          /\ calls[i].seen = "Unresolved" =>
                /\ attempts[calls[i].from + 1].owner = calls[i].token
                /\ SameOutcome(i, JoinedAttempt(i))

\* Two overlapping resolve calls of one singleton token, both fulfilled.
C1_Witness ==
    \E i, j \in DOMAIN calls :
        /\ i < j
        /\ calls[i].token = calls[j].token
        /\ calls[i].seen = "Unresolved"
        /\ calls[j].seen = "Pending"
        /\ heap[calls[j].p].state = "fulfilled"
        /\ heap[calls[i].p].value = heap[calls[j].p].value

\* One step keeps a Resolved resolver as it is.
C2_StickyStep ==
    \A t \in Tokens :
        registry[t].resolved =>
            /\ registry'[t].resolved
            /\ registry'[t].value = registry[t].value
            /\ registry'[t].promise = 0

C2_CachedCall ==
    \A i \in DOMAIN calls :
        calls[i].seen = "Resolved" =>
            /\ calls[i].to = calls[i].from
            /\ registry[calls[i].token].resolved
            /\ heap[calls[i].p].state = "fulfilled"
            /\ heap[calls[i].p].value = registry[calls[i].token].value
            /\ heap[calls[i].p].value.kind = "inst"

\* C2: a Resolved singleton stays Resolved with the same cached value, and
\* a resolve(token) that finds it Resolved does no work (no resolveFactory
\* invocation, for the token or for any token it requires, hence no create)
\* and is fulfilled with the cached instance.
C2_ResolvedIsSticky == [][C2_StickyStep]_vars /\ []C2_CachedCall

\* A singleton that requires a transient token was resolved, then resolved
\* again from its cache: the transient dependency was created once.
C2_Witness ==
    \E i \in DOMAIN calls :
        /\ calls[i].seen = "Resolved"
        /\ \E r \in Range(calls[i].factory.requires) :
              /\ registry[r].bound
              /\ IsTransient(registry[r])
              /\ Cardinality(AttemptsOf(r)) = 1

\* C3: a failed singleton attempt is not cached.  When the latest attempt of
\* a singleton has failed the resolver is Unresolved again (no pending
\* promise, nothing cached), and a resolve(token) that finds it Unresolved
\* starts a new attempt of its own, with a promise no earlier call was given.
C3_FailureNotCached ==
    /\ \A t \in Tokens :
          (IsSingleton(registry, t) /\ AttemptsOf(t) # {}) =>
             (attempts[Max(AttemptsOf(t))].outcome.kind \in ErrorKinds =>
                 /\ registry[t].promise = 0
                 /\ ~registry[t].resolved
                 /\ registry[t].value = NoVal)
    /\ \A i \in DOMAIN calls :
          calls[i].seen = "Unresolved" =>
             /\ attempts[calls[i].from + 1].owner = calls[i].token
             /\ attempts[calls[i].from + 1].call = i
             /\ calls[i].p # attempts[calls[i].from + 1].p
             /\ \A j \in 1..(i - 1) : calls[j].p # calls[i].p

\* A singleton's first attempt failed on an unregistered dependency; the
\* dependency was registered and a later resolve(token) succeeded.
C3_Witness ==
    \E i, j \in DOMAIN calls :
        /\ i < j
        /\ calls[i].token = calls[j].token
        /\ calls[i].seen = "Unresolved"
        /\ calls[j].seen = "Unresolved"
        /\ heap[calls[i].p].state = "rejected"
        /\ heap[calls[i].p].value.kind = "unregistered"
        /\ heap[calls[j].p].state = "fulfilled"
        /\ registry[calls[j].token].resolved

\* The requires of `factory` lead back to `token` along the requires of
\* bound tokens.
CycleBack(reg, token, factory) == token \in Reach(reg, Range(factory.requires))

\* C4: the graph of the registered tokens and the requires of their
\* factories has no cycle: no bound token is reached from its own requires
\* (self-loops and cycles closed through an earlier registration included).
C4_RegistryAcyclic ==
    \A t \in Tokens :
        registry[t].bound => ~CycleBack(registry, t, registry[t].factory)

\* Two tokens are chained and the registration that would have closed the
\* chain into a cycle of three was rejected.
C4_Witness ==
    /\ diag.kind = "cycle"
    /\ Len(diag.cycle) = 3
    /\ ~registry[diag.token].bound
    /\ \A t \in Tokens \ {diag.token} : registry[t].bound

\* resolveToken's result r is the rejection that names `token` unregistered.
IsUnregisteredResult(r, token) ==
    /\ r.p # 0
    /\ r.m.heap[r.p].state = "rejected"
    /\ r.m.heap[r.p].value.kind = "unregistered"
    /\ r.m.heap[r.p].value.token = token

OnlyRegistryAndConsole == UNCHANGED <<heap, jobs, nextId, attempts, calls>>

\* What a cyclic register call does in one step.
C5_Step ==
    nregs' # nregs =>
        \A token \in SpecTokens, factory \in SpecFactories :
            (/\ ~registry[token].bound
             /\ CycleBack(registry, token, factory)
             /\ Register(token, factory))
            => /\ registry' = registry
               /\ ~isRegistered(registry', token)
               /\ OnlyRegistryAndConsole
               /\ diag'.kind = "cycle"
               /\ diag'.token = token
               /\ IsUnregisteredResult(resolveToken(Machine', token, 0), token)

\* C5: a register(token, factory) whose requires lead back to token returns
\* with the registry exactly as it was, token still unregistered and the
\* cycle reported on the console; a resolve(token) made then is rejected as
\* unregistered.
C5_CyclicRegistrationIgnored == [][C5_Step]_vars

\* IBar requires IBaz, the registration of IBaz requiring IBar was rejected,
\* and resolve(IBaz) then failed as unregistered.
C5_Witness ==
    /\ diag.kind = "cycle"
    /\ Len(diag.cycle) = 2
    /\ ~registry[diag.token].bound
    /\ \E i \in DOMAIN calls :
          /\ calls[i].kind = "token"
          /\ calls[i].token = diag.token
          /\ heap[calls[i].p].state = "rejected"
          /\ heap[calls[i].p].value.kind = "unregistered"
          /\ heap[calls[i].p].value.token = diag.token

\* What a register call on a bound token does in one step.
C6_Step ==
    nregs' # nregs =>
        \A token \in SpecTokens, factory \in SpecFactories :
            (registry[token].bound /\ Register(token, factory))
            => /\ registry' = registry
               /\ OnlyRegistryAndConsole
               /\ diag'.kind = "registered"
               /\ diag'.token = token

C6_FirstBinding ==
    /\ \A k \in DOMAIN attempts :
          attempts[k].owner \in Tokens =>
             attempts[k].factory = registry[attempts[k].owner].factory
    /\ \A i \in DOMAIN calls :
          (calls[i].kind = "token" /\ calls[i].factory # NoFactory) =>
             registry[calls[i].token].factory = calls[i].factory

\* C6: a register(token, f2) on a bound token returns with the registry
\* unchanged whatever f2 is (binding and cache state alike), and every
\* resolveFactory made for a token, before or after, uses the factory of the
\* token's one binding.
C6_DuplicateRegistrationIgnored == [][C6_Step]_vars /\ []C6_FirstBinding

\* A token was registered, registered again (rejected), and a resolve of it
\* produced an instance of the bound factory.
C6_Witness ==
    /\ diag.kind = "registered"
    /\ nregs = 2
    /\ \E i \in DOMAIN calls :
          /\ calls[i].kind = "token"
          /\ calls[i].token = diag.token
          /\ heap[calls[i].p].state = "fulfilled"
          /\ heap[calls[i].p].value.by = registry[diag.token].factory

\* How the bindings may change in one step.
C7_Step ==
    \A t \in Tokens :
        /\ isRegistered(registry, t) =>
              /\ isRegistered(registry', t)
              /\ registry'[t].factory = registry[t].factory
        /\ (~isRegistered(registry, t) /\ isRegistered(registry', t)) =>
              \E factory \in SpecFactories :
                  Register(t, factory) /\ ~CycleBack(registry, t, factory)
        /\ nregs' # nregs =>
              \A factory \in SpecFactories :
                  (/\ ~isRegistered(registry, t)
                   /\ ~CycleBack(registry, t, factory)
                   /\ Register(t, factory))
                  => (isRegistered(registry', t) /\ registry'[t].factory = factory)

\* C7: no token is registered at the start; a registered token stays
\* registered with the same factory; a token becomes registered only by a
\* register call that is neither a duplicate nor cyclic, and every such call
\* registers it at once.
C7_RegisteredForGood ==
    (\A t \in Tokens : ~isRegistered(registry, t)) /\ [][C7_Step]_vars

\* A token that was resolved while unregistered, then registered, then
\* resolved again.
C7_Witness ==
    \E i, j \in DOMAIN calls :
        /\ i < j
        /\ calls[i].kind = "token"
        /\ calls[j].kind = "token"
        /\ calls[i].token = calls[j].token
        /\ calls[i].factory = NoFactory
        /\ calls[j].factory # NoFactory
        /\ isRegistered(registry, calls[j].token)

\* Call i has settled with the unregistered-token error naming X.
RejectedNaming(i, X) ==
    /\ heap[calls[i].p].state = "rejected"
    /\ heap[calls[i].p].value.kind = "unregistered"
    /\ heap[calls[i].p].value.token = X

\* Some create has thrown, or the promise it returned was rejected.
CreateFailed ==
    \E q \in DOMAIN heap :
        heap[q].state = "rejected" /\ heap[q].value.kind = "createError"

\* C8 as stated: a settled resolve whose argument requires, directly or
\* transitively, an unregistered token X has failed with the
\* unregistered-token error naming X - for every such X.
C8_EveryMissingNamed ==
    \A i \in DOMAIN calls :
        \A X \in calls[i].missing :
            heap[calls[i].p].state # "pending" => RejectedNaming(i, X)

\* C8, amended: resolve(X) of a token X without a binding is rejected at
\* once with the unregistered-token error naming X.  A resolve whose argument
\* requires unregistered tokens, directly or transitively, never succeeds; it
\* fails with the first failure met, which is an unregistered-token error
\* unless a create has failed, and an unregistered-token error always names
\* one token that had no binding when this call or an earlier one required
\* it (so the one missing token, when only one ever was).
C8_FirstMissingNamed ==
    \A i \in DOMAIN calls :
        /\ (calls[i].kind = "token" /\ calls[i].factory = NoFactory) =>
              RejectedNaming(i, calls[i].token)
        /\ calls[i].missing # {} =>
              /\ heap[calls[i].p].state # "fulfilled"
              /\ (heap[calls[i].p].state = "rejected" /\ ~CreateFailed) =>
                    heap[calls[i].p].value.kind = "unregistered"
        /\ (/\ heap[calls[i].p].state = "rejected"
            /\ heap[calls[i].p].value.kind = "unregistered") =>
              heap[calls[i].p].value.token \in
                  UNION {calls[j].missing : j \in 1..i}

\* A resolve of a registered token failed on an unregistered token that its
\* factory requires, and a resolve of an ad hoc factory with two missing
\* tokens failed naming the first.
C8_Witness ==
    \E i, j \in DOMAIN calls :
        /\ calls[i].kind = "token"
        /\ calls[i].factory # NoFactory
        /\ calls[i].missing # {}
        /\ \E X \in calls[i].missing : RejectedNaming(i, X)
        /\ calls[j].kind = "factory"
        /\ Cardinality(calls[j].missing) = 2
        /\ RejectedNaming(j, calls[j].factory.requires[1])

\* Attempt k (one resolveFactory invocation) has called create exactly when
\* all its dependencies resolved and its `then` callback has run; never twice.
CreateOncePerAttempt(k) ==
    /\ attempts[k].creates <= 1
    /\ heap[attempts[k].all].state = "rejected" => attempts[k].creates = 0
    /\ (heap[attempts[k].all].state = "fulfilled"
           /\ heap[attempts[k].p].state # "pending") => attempts[k].creates = 1
    /\ heap[attempts[k].p].state = "fulfilled" =>
          /\ attempts[k].creates = 1
          /\ heap[attempts[k].p].value.kind = "inst"
          /\ heap[attempts[k].p].value.by = attempts[k].factory

\* The resolve(token) calls made on a token bound with Transient lifetime.
TransientCalls ==
    {i \in DOMAIN calls : /\ calls[i].kind = "token"
                          /\ calls[i].factory # NoFactory
                          /\ IsTransient(registry[calls[i].token])}

\* C9: every resolve(token) of a Transient token makes a resolveFactory
\* invocation of its own, whose create runs exactly once when all
\* dependencies resolved (and not at all otherwise); two calls never share an
\* instance, and the transient resolver holds no value, flag or promise
\* whatever the outcomes were.
C9_TransientFresh ==
    /\ \A t \in Tokens :
          (registry[t].bound /\ IsTransient(registry[t])) =>
             /\ registry[t] = createResolver(registry[t].factory)
             /\ \A k \in AttemptsOf(t) : CreateOncePerAttempt(k)
    /\ \A i \in TransientCalls :
          /\ calls[i].to > calls[i].from
          /\ attempts[calls[i].from + 1].owner = calls[i].token
          /\ attempts[calls[i].from + 1].call = i
          /\ attempts[calls[i].from + 1].factory = calls[i].factory
          /\ attempts[calls[i].from + 1].p = calls[i].p
    /\ \A i, j \in TransientCalls :
          (i # j /\ heap[calls[i].p].state = "fulfilled"
                 /\ heap[calls[j].p].state = "fulfilled") =>
             heap[calls[i].p].value.id # heap[calls[j].p].value.id

\* Two overlapping resolve calls of one transient token, both fulfilled: the
\* second was issued before the create of the first ran (its create returned
\* a promise allocated after the second call's Promise.all).
C9_Witness ==
    \E i, j \in TransientCalls :
        /\ i < j
        /\ calls[i].token = calls[j].token
        /\ heap[calls[i].p].state = "fulfilled"
        /\ heap[calls[j].p].state = "fulfilled"
        /\ heap[calls[i].p].value.id # heap[calls[j].p].value.id
        /\ \E q \in DOMAIN heap :
              /\ heap[q].ext
              /\ heap[q].value.id = heap[calls[i].p].value.id
              /\ attempts[calls[j].from + 1].all < q

\* The resolve(factory) calls.
FactoryCalls == {i \in DOMAIN calls : calls[i].kind = "factory"}

\* A resolve(factory) step touches no binding, and only the resolvers of the
\* tokens its requires reach.
C10_Step ==
    (Len(calls') > Len(calls) /\ calls'[Len(calls')].kind = "factory") =>
        \A t \in Tokens :
            /\ registry'[t].bound = registry[t].bound
            /\ registry'[t].factory = registry[t].factory
            /\ t \notin Reach(registry, Range(calls'[Len(calls')].factory.requires))
                  => registry'[t] = registry[t]

\* What holds of every resolve(factory) call made so far.
C10_Calls ==
    \A i \in FactoryCalls :
        /\ calls[i].to > calls[i].from
        /\ attempts[calls[i].from + 1].owner = "adhoc"
        /\ attempts[calls[i].from + 1].call = i
        /\ attempts[calls[i].from + 1].factory = calls[i].factory
        /\ attempts[calls[i].from + 1].p = calls[i].p
        /\ CreateOncePerAttempt(calls[i].from + 1)
        /\ heap[calls[i].p].state = "fulfilled" =>
              /\ \A t \in Tokens : registry[t].value.id # heap[calls[i].p].value.id
              /\ \A j \in DOMAIN calls \ {i} :
                    heap[calls[j].p].state = "fulfilled" =>
                       heap[calls[j].p].value.id # heap[calls[i].p].value.id
              /\ \A n \in DOMAIN calls[i].factory.requires :
                    IF IsSingleton(registry, calls[i].factory.requires[n])
                    THEN /\ registry[calls[i].factory.requires[n]].resolved
                         /\ registry[calls[i].factory.requires[n]].value.id
                               = heap[calls[i].p].value.args[n]
                    ELSE \E k \in (calls[i].from + 2)..calls[i].to :
                            /\ attempts[k].owner = calls[i].factory.requires[n]
                            /\ attempts[k].creates = 1
                            /\ heap[attempts[k].p].state = "fulfilled"
                            /\ heap[attempts[k].p].value.id
                                  = heap[calls[i].p].value.args[n]

\* C10: resolve(factory) always makes a resolveFactory invocation of its own
\* for the descriptor, owned by no resolver, and returns that invocation's
\* promise: create runs once per call whatever lifetime the descriptor
\* declares and whether or not a token is bound to it, the instance is no
\* other call's and no resolver's cached value, no binding is added or
\* changed, and each required token is resolved by its own resolver (a
\* singleton's cached instance, a transient's fresh one).
C10_AdHocNeverCached == [][C10_Step]_vars /\ []C10_Calls

\* A descriptor without a Transient lifetime is registered under a token and
\* that singleton is Resolved; a resolve(factory) of the same descriptor was
\* fulfilled with another instance.
C10_Witness ==
    \E i \in FactoryCalls :
        /\ heap[calls[i].p].state = "fulfilled"
        /\ calls[i].factory.lifetime # "Transient"
        /\ \E t \in Tokens :
              /\ registry[t].bound
              /\ registry[t].factory = calls[i].factory
              /\ registry[t].resolved
              /\ registry[t].value.id # heap[calls[i].p].value.id

\* The state and the value of what a required token resolved to.
DepState(d) == IF d.p = 0 THEN "fulfilled" ELSE heap[d.p].state

DepValue(d) == IF d.p = 0 THEN d.v ELSE heap[d.p].value

\* The positions of attempt k's requires whose resolution has failed.
FailedDeps(k) ==
    {n \in DOMAIN attempts[k].deps : DepState(attempts[k].deps[n]) = "rejected"}

\* A failed dependency keeps create from running, and the attempt fails
\* with the very error record of one of its failed dependencies.
C11_Propagated ==
    /\ \A k \in DOMAIN attempts :
          /\ FailedDeps(k) # {} =>
                /\ attempts[k].creates = 0
                /\ heap[attempts[k].all].state # "fulfilled"
                /\ heap[attempts[k].p].state # "fulfilled"
          /\ heap[attempts[k].all].state = "rejected" =>
                /\ \E n \in FailedDeps(k) :
                      heap[attempts[k].all].value = DepValue(attempts[k].deps[n])
                /\ heap[attempts[k].p].state # "pending" =>
                      /\ heap[attempts[k].p].state = "rejected"
                      /\ heap[attempts[k].p].value = heap[attempts[k].all].value
          /\ attempts[k].outcome.kind \in ErrorKinds =>
                /\ heap[attempts[k].p].state = "rejected"
                /\ attempts[k].outcome = heap[attempts[k].p].value
    /\ \A q \in DOMAIN heap :
          heap[q].state = "rejected" =>
             /\ heap[q].value.kind \in ErrorKinds
             /\ \A q2 \in DOMAIN heap :
                   (heap[q2].state = "rejected" /\ heap[q2].value.id = heap[q].value.id)
                   => heap[q2].value = heap[q].value

\* A settled promise never changes, and a Promise.all promise is rejected by
\* the first rejection job of one of its elements, with that job's reason.
C11_FirstFailureStep ==
    \A q \in DOMAIN heap :
        /\ heap[q].state # "pending" =>
              (heap'[q].state = heap[q].state /\ heap'[q].value = heap[q].value)
        /\ (/\ heap[q].state = "pending"
            /\ heap'[q].state = "rejected"
            /\ \E k \in DOMAIN attempts : attempts[k].all = q) =>
              /\ Len(jobs) > 0
              /\ Head(jobs).kind = "reaction"
              /\ Head(jobs).reaction.kind = "allElem"
              /\ Head(jobs).reaction.target = q
              /\ ~Head(jobs).ok
              /\ heap'[q].value = Head(jobs).arg

\* C11: when the resolution of a required token fails, create is not invoked
\* for that attempt and the attempt fails with that dependency's own error
\* record, unchanged, at every level (transient, singleton, ad hoc) up to
\* the promise handed to the resolve caller; with several failed
\* dependencies the error is that of the first rejection to be delivered,
\* and it is never replaced or combined afterwards.
C11_FirstFailurePropagates == [][C11_FirstFailureStep]_vars /\ []C11_Propagated

\* An ad hoc factory requires an unregistered token and a transient token
\* that requires the same unregistered token: both dependencies failed with
\* errors of their own, the call was rejected with the first one, and no
\* create ran.
C11_Witness ==
    \E i \in FactoryCalls :
        /\ Cardinality(FailedDeps(calls[i].from + 1)) = 2
        /\ DepValue(attempts[calls[i].from + 1].deps[1])
              # DepValue(attempts[calls[i].from + 1].deps[2])
        /\ heap[calls[i].p].state = "rejected"
        /\ heap[calls[i].p].value = DepValue(attempts[calls[i].from + 1].deps[1])
        /\ calls[i].to > calls[i].from + 1
        /\ \A k \in (calls[i].from + 1)..calls[i].to : attempts[k].creates = 0

\* A step that is not a register call keeps every binding and the console,
\* and changes nothing but the cache fields of Singleton resolvers; a binding
\* appears only in a register step.
C12_Step ==
    /\ nregs' = nregs =>
          /\ diag' = diag
          /\ \A t \in Tokens :
                /\ registry'[t].bound = registry[t].bound
                /\ registry'[t].factory = registry[t].factory
                /\ ~IsSingleton(registry, t) => registry'[t] = registry[t]
    /\ \A t \in Tokens :
          (registry'[t].bound # registry[t].bound) =>
             (nregs' = nregs + 1 /\ ~registry[t].bound)

\* C12: no step of a resolve call - the call itself or any promise job or
\* settlement that continues it, successful or not - adds, removes or
\* replaces a binding; all it changes in the registry is the cache state of
\* Singleton resolvers.  Bindings are added by register steps only.
C12_ResolveKeepsBindings == [][C12_Step]_vars

\* Two resolve calls have run to the end, one fulfilled from a singleton that
\* is now Resolved and one rejected, and a token is still unregistered.
C12_Witness ==
    /\ Len(calls) = 2
    /\ jobs = <<>>
    /\ \E i, j \in DOMAIN calls :
          /\ heap[calls[i].p].state = "fulfilled"
          /\ calls[i].kind = "token"
          /\ registry[calls[i].token].resolved
          /\ heap[calls[j].p].state = "rejected"
    /\ \E t \in SpecTokens : ~registry[t].bound

\* The resolve(token) calls made on a token that had a binding.
BoundTokenCalls ==
    {i \in DOMAIN calls : calls[i].kind = "token" /\ calls[i].factory # NoFactory}

\* C13 as stated: a resolve(token) made when every token transitively
\* required was registered, and with no create failing, does not fail.
C13_AnyOrderSucceeds ==
    \A i \in BoundTokenCalls :
        (calls[i].missing = {} /\ ~CreateFailed) =>
            heap[calls[i].p].state # "rejected"

\* register accepts a factory whose requires name unregistered tokens.
C13_Step ==
    nregs' # nregs =>
        \A token \in SpecTokens, factory \in SpecFactories :
            (/\ ~registry[token].bound
             /\ Missing(registry, factory.requires) # {}
             /\ ~CycleBack(registry, token, factory)
             /\ Register(token, factory))
            => registry' = [registry EXCEPT ![token] = createResolver(factory)]

\* A resolve(token) that met every requirement registered and no singleton
\* Pending does not fail unless a create does, and it yields an instance of
\* the token's factory.
C13_Calls ==
    \A i \in BoundTokenCalls :
        (calls[i].missing = {} /\ calls[i].pending = {}) =>
            /\ ~CreateFailed => heap[calls[i].p].state # "rejected"
            /\ heap[calls[i].p].state = "fulfilled" =>
                  /\ heap[calls[i].p].value.kind = "inst"
                  /\ heap[calls[i].p].value.by = calls[i].factory
                  /\ Len(heap[calls[i].p].value.args) = Len(calls[i].factory.requires)

\* C13, amended: register accepts a token whose required tokens are not yet
\* registered, and resolve(token) succeeds whenever, at the time of the
\* call, every token transitively required is registered, no Singleton among
\* the token and the tokens it requires is Pending, and every create
\* succeeds.  (A call that finds such a singleton Pending shares the outcome
\* of the attempt in flight, which fails if it was started while one of its
\* requirements was unregistered.)
C13_OrderFreeUnlessPending == [][C13_Step]_vars /\ []C13_Calls

\* A token was resolved while a token it requires was unregistered (so it
\* was registered first), and resolved again with success once the
\* requirement was registered.
C13_Witness ==
    \E i, j \in BoundTokenCalls :
        /\ i < j
        /\ calls[i].token = calls[j].token
        /\ calls[i].missing # {}
        /\ calls[j].missing = {}
        /\ calls[j].pending = {}
        /\ heap[calls[i].p].state = "rejected"
        /\ heap[calls[j].p].state = "fulfilled"

\* AttemptsOf, for the resolvers of one container (second: TRUE / FALSE).
AttemptsIn(second, t) ==
    {k \in DOMAIN attempts :
        attempts[k].owner = t /\ (attempts[k].call \in otherCalls) = second}

\* What one step may do to the two registries.
C14_Step ==
    /\ nregs' # nregs =>
          IF otherRegs' = otherRegs
          THEN /\ registry2' = registry2
               /\ \A token \in SpecTokens, factory \in ContainerFactories :
                     (/\ Register(token, factory)
                      /\ ~registry[token].bound
                      /\ ~CycleBack(registry, token, factory))
                     => registry'[token] = createResolver(factory)
          ELSE /\ registry' = registry
               /\ \A token \in SpecTokens, factory \in ContainerFactories :
                     (/\ RegisterOther(token, factory)
                      /\ ~registry2[token].bound
                      /\ ~CycleBack(registry2, token, factory))
                     => registry2'[token] = createResolver(factory)
    /\ Len(calls') > Len(calls) =>
          IF Len(calls') \in otherCalls' THEN registry' = registry
                                         ELSE registry2' = registry2
    /\ (calls' = calls /\ nregs' = nregs /\ Len(jobs) > 0) =>
          /\ registry' # registry => ~OnOther(Head(jobs))
          /\ registry2' # registry2 => OnOther(Head(jobs))
    /\ nregs' = nregs =>
          \A t \in Tokens :
              /\ registry'[t].bound = registry[t].bound
              /\ registry2'[t].bound = registry2[t].bound

\* A cached instance was created by an attempt of its own container, each
\* container creates a singleton at most once, and the two never share one.
C14_OwnInstances ==
    \A t \in Tokens :
        /\ registry[t].resolved =>
              \E k \in AttemptsIn(FALSE, t) : attempts[k].outcome = registry[t].value
        /\ registry2[t].resolved =>
              \E k \in AttemptsIn(TRUE, t) : attempts[k].outcome = registry2[t].value
        /\ (registry[t].resolved /\ registry2[t].resolved) =>
              registry[t].value.id # registry2[t].value.id
        /\ \A second \in BOOLEAN :
              (IF second THEN IsSingleton(registry2, t) ELSE IsSingleton(registry, t))
              => Cardinality({k \in AttemptsIn(second, t) :
                                 attempts[k].outcome.kind = "inst"}) <= 1

\* C14: two containers share tokens and descriptors but nothing else: a
\* register or resolve on one (with every promise job that continues it)
\* leaves the other's bindings and Singleton caches as they were, a
\* registration is accepted or rejected by the target container's registry
\* alone (a duplicate or a cycle in one does not reject it in the other), and
\* a Singleton registered in both is created once in each, with an instance
\* of its own.
C14_ContainersIndependent == [][C14_Step]_vars /\ []C14_OwnInstances

\* The same Singleton descriptor is registered under the same token in both
\* containers and both have resolved it, each to its own instance.
C14_Witness ==
    \E t \in SpecTokens :
        /\ registry[t].resolved
        /\ registry2[t].resolved
        /\ registry[t].factory = registry2[t].factory
        /\ registry[t].value.id # registry2[t].value.id
        /\ otherCalls # {}
        /\ otherRegs # {}

\* Every requirement of attempt k has resolved.
AllDepsResolved(k) ==
    \A n \in DOMAIN attempts[k].deps : DepState(attempts[k].deps[n]) = "fulfilled"

\* C15: a resolveFactory invocation calls create at most once and only when
\* every required token has resolved; once they all have and the job queue
\* has drained it has called it exactly once; and the instance was made
\* from one argument per entry of requires, argument n being the value that
\* requires[n] resolved to, in whatever order the resolutions completed.
C15_CreateAfterAllInOrder ==
    \A k \in DOMAIN attempts :
        /\ Len(attempts[k].deps) = Len(attempts[k].factory.requires)
        /\ attempts[k].creates <= 1
        /\ attempts[k].creates = 1 => AllDepsResolved(k)
        /\ (AllDepsResolved(k) /\ jobs = <<>>) => attempts[k].creates = 1
        /\ heap[attempts[k].p].state = "fulfilled" =>
              /\ attempts[k].creates = 1
              /\ heap[attempts[k].p].value.by = attempts[k].factory
              /\ Len(heap[attempts[k].p].value.args) = Len(attempts[k].factory.requires)
              /\ \A n \in DOMAIN attempts[k].deps :
                    /\ heap[attempts[k].p].value.args[n]
                          = DepValue(attempts[k].deps[n]).id
                    /\ DepValue(attempts[k].deps[n]).kind = "inst"
                    /\ DepValue(attempts[k].deps[n]).by
                          = registry[attempts[k].factory.requires[n]].factory

\* An ad hoc factory with two requirements was created with both, the first
\* argument being an instance made after the second one: the second
\* requirement resolved first.
C15_Witness ==
    \E i \in FactoryCalls :
        /\ heap[calls[i].p].state = "fulfilled"
        /\ Len(heap[calls[i].p].value.args) = 2
        /\ heap[calls[i].p].value.args[1] > heap[calls[i].p].value.args[2]
        /\ attempts[calls[i].from + 1].creates = 1

\* `trace` leads from the requires of `factory` to `token` along the requires
\* of registered tokens.
ValidPath(reg, token, factory, trace) ==
    /\ trace[1] \in Range(factory.requires)
    /\ trace[Len(trace)] = token
    /\ \A n \in 1..(Len(trace) - 1) :
          /\ reg[trace[n]].bound
          /\ trace[n + 1] \in Range(reg[trace[n]].factory.requires)

\* C16: on every registry that register calls can build, for every
\* candidate token and factory, findCycle returns (the search ends) a
\* non-empty trace exactly when the token is reachable from the factory's
\* requires through the requires of registered tokens; a non-empty trace is
\* a path from one of the factory's requires to the token, and the trace is
\* empty otherwise.
C16_TraceIsPath ==
    \A token \in Tokens, factory \in Factories :
        /\ (findCycle(registry, token, factory) # <<>>)
              <=> CycleBack(registry, token, factory)
        /\ findCycle(registry, token, factory) # <<>> =>
              ValidPath(registry, token, factory, findCycle(registry, token, factory))

\* A registration was rejected with a trace of two tokens, the second being
\* the second requirement of the first, whose first requirement is another
\* token (a branch that the search entered and left).
C16_Witness ==
    /\ diag.kind = "cycle"
    /\ Len(diag.cycle) = 2
    /\ registry[diag.cycle[1]].bound
    /\ Len(registry[diag.cycle[1]].factory.requires) = 2
    /\ registry[diag.cycle[1]].factory.requires[2] = diag.cycle[2]
    /\ registry[diag.cycle[1]].factory.requires[1] # diag.cycle[2]
    /\ registry[registry[diag.cycle[1]].factory.requires[1]].bound

\* Every way from `requires` to `token` through the requires of registered
\* tokens, in at most n steps, stopping at the first occurrence of the token:
\* the positions chosen in the requires arrays (idx) and the tokens passed
\* (toks).
RECURSIVE PathsFrom(_, _, _, _)
PathsFrom(reg, token, requires, n) ==
    IF n = 0 THEN {}
    ELSE UNION {
        IF requires[i] = token
        THEN {[idx |-> <<i>>, toks |-> <<token>>]}
        ELSE IF reg[requires[i]].bound
        THEN {[idx |-> <<i>> \o q.idx, toks |-> <<requires[i]>> \o q.toks] :
                 q \in PathsFrom(reg, token, reg[requires[i]].factory.requires, n - 1)}
        ELSE {} : i \in DOMAIN requires}

CyclePaths(reg, token, factory) ==
    PathsFrom(reg, token, factory.requires, Cardinality(Tokens))

\* a comes before b in depth-first, declaration order.
Before(a, b) ==
    \E j \in (DOMAIN a) \cap (DOMAIN b) :
        a[j] < b[j] /\ \A h \in 1..(j - 1) : a[h] = b[h]

\* C17: the trace findCycle reports is a function of the registry and the
\* candidate, and among all the paths back to the candidate token it is the
\* one that comes first in depth-first, declaration order of the requires
\* arrays - whether or not a shorter path exists.
C17_FirstPathInOrder ==
    \A token \in Tokens, factory \in Factories :
        IF CyclePaths(registry, token, factory) = {}
        THEN findCycle(registry, token, factory) = <<>>
        ELSE \E p \in CyclePaths(registry, token, factory) :
                /\ findCycle(registry, token, factory) = p.toks
                /\ \A q \in CyclePaths(registry, token, factory) \ {p} :
                      Before(p.idx, q.idx)

\* A registration was rejected with a trace of three tokens although the
\* candidate factory also offered a path of two.
C17_Witness ==
    /\ diag.kind = "cycle"
    /\ Len(diag.cycle) = 3
    /\ \E factory \in Factories :
          /\ findCycle(registry, diag.token, factory) = diag.cycle
          /\ \E q \in CyclePaths(registry, diag.token, factory) : Len(q.toks) = 2

\* Nothing is left to run: the job queue is empty and every promise that a
\* create handed back has settled.
Quiescent ==
    /\ jobs = <<>>
    /\ \A q \in DOMAIN heap : heap[q].ext => heap[q].state # "pending"

\* The attempts of Singleton S that called create and got an instance.
Created(S) ==
    {k \in AttemptsOf(S) :
        attempts[k].creates = 1 /\ heap[attempts[k].p].state = "fulfilled"}

\* C18: when a resolveFactory invocation requires a Singleton S next to a
\* requirement that fails, the invocation fails with the failed
\* requirement's error, and S's creation is not abandoned: once nothing is
\* left to run S is not Pending, S is Resolved with the instance its
\* promise delivered, that instance was created once, and every resolve(S)
\* that is fulfilled received it.
C18_SiblingCompletes ==
    \A a \in DOMAIN attempts :
        \A n \in (DOMAIN attempts[a].deps) \ FailedDeps(a) :
            (/\ FailedDeps(a) # {}
             /\ IsSingleton(registry, attempts[a].factory.requires[n])) =>
               /\ heap[attempts[a].p].state # "fulfilled"
               /\ heap[attempts[a].p].state = "rejected" =>
                     \E x \in FailedDeps(a) :
                         heap[attempts[a].p].value = DepValue(attempts[a].deps[x])
               /\ Quiescent =>
                     /\ registry[attempts[a].factory.requires[n]].resolved
                     /\ registry[attempts[a].factory.requires[n]].value
                           = DepValue(attempts[a].deps[n])
               /\ Cardinality(Created(attempts[a].factory.requires[n])) <= 1
               /\ registry[attempts[a].factory.requires[n]].resolved =>
                     Cardinality(Created(attempts[a].factory.requires[n])) = 1
               /\ \A j \in DOMAIN calls :
                     (/\ calls[j].kind = "token"
                      /\ calls[j].token = attempts[a].factory.requires[n]
                      /\ heap[calls[j].p].state = "fulfilled") =>
                        /\ registry[calls[j].token].resolved
                        /\ heap[calls[j].p].value = registry[calls[j].token].value

\* resolve of an ad hoc factory requiring [S, X] started S's creation and
\* failed on the unregistered X; S is Resolved all the same and a later
\* resolve(S) was served from its cache, after one create in all.
C18_Witness ==
    \E i \in FactoryCalls, j \in DOMAIN calls :
        /\ i < j
        /\ Len(calls[i].factory.requires) = 2
        /\ FailedDeps(calls[i].from + 1) = {2}
        /\ calls[i].to > calls[i].from + 1
        /\ heap[calls[i].p].state = "rejected"
        /\ heap[calls[i].p].value.kind = "unregistered"
        /\ calls[j].kind = "token"
        /\ calls[j].token = calls[i].factory.requires[1]
        /\ heap[calls[j].p].state = "fulfilled"
        /\ heap[calls[j].p].value = registry[calls[j].token].value
        /\ Cardinality({k \in AttemptsOf(calls[j].token) : attempts[k].creates = 1}) = 1
        /\ Cardinality(AttemptsOf(calls[j].token)) = 1

\* How often t occurs in a requires array.
Occ(seq, t) == Cardinality({i \in DOMAIN seq : seq[i] = t})

\* How often one walk over `requires` asks for token t (Visits), counted
\* from the requires graph: a Transient token passes every request on to its
\* own requires, an Unresolved Singleton only the first, an unregistered
\* token and a Pending or Resolved Singleton none.  n bounds the depth.
RECURSIVE Visits(_, _, _, _)
RECURSIVE Expansions(_, _, _, _)
RECURSIVE SumVisits(_, _, _, _, _)
Visits(reg, requires, t, n) ==
    Occ(requires, t)
    + (IF n = 0 THEN 0 ELSE SumVisits(reg, requires, t, n - 1, Tokens \ {t}))

Expansions(reg, requires, u, n) ==
    IF ~reg[u].bound THEN 0
    ELSE IF IsTransient(reg[u]) THEN Visits(reg, requires, u, n)
    ELSE IF SingletonState(reg[u]) = "Unresolved" /\ Visits(reg, requires, u, n) >= 1
    THEN 1
    ELSE 0

SumVisits(reg, requires, t, n, S) ==
    IF S = {} THEN 0
    ELSE LET u == CHOOSE x \in S : TRUE
         IN  Expansions(reg, requires, u, n) * Occ(reg[u].factory.requires, t)
             + SumVisits(reg, requires, t, n, S \ {u})

\* The requires that the resolve call recorded last walked over.
LastRequires(c) ==
    IF c[Len(c)].kind = "token" THEN <<c[Len(c)].token>> ELSE c[Len(c)].factory.requires

\* The resolveFactory invocations that the call recorded last made for t.
LastAttemptsOf(c, att, t) ==
    {k \in (c[Len(c)].from + 1)..c[Len(c)].to : att[k].owner = t}

\* C19 as stated: when resolve returns, every registered Singleton that is
\* reachable through requires from its argument and was Unresolved is
\* Pending.
C19_ReachableStep ==
    Len(calls') > Len(calls) =>
        \A t \in Reach(registry, Range(LastRequires(calls'))) :
            (IsSingleton(registry, t) /\ SingletonState(registry[t]) = "Unresolved")
            => SingletonState(registry'[t]) = "Pending"

C19_AllReachablePending == [][C19_ReachableStep]_vars

\* What one resolve call has done when it returns, for every token.
C19_WalkStep ==
    Len(calls') > Len(calls) =>
        /\ Len(jobs') >= Len(jobs)
        /\ SubSeq(jobs', 1, Len(jobs)) = jobs
        /\ \A k \in DOMAIN attempts : attempts'[k] = attempts[k]
        /\ \A k \in (DOMAIN attempts') \ (DOMAIN attempts) : attempts'[k].creates = 0
        /\ \A t \in Tokens :
               /\ IsTransient(registry[t]) /\ registry[t].bound =>
                     Cardinality(LastAttemptsOf(calls', attempts', t))
                        = Visits(registry, LastRequires(calls'), t, Cardinality(Tokens))
               /\ (IsSingleton(registry, t) /\ SingletonState(registry[t]) = "Unresolved") =>
                     IF Visits(registry, LastRequires(calls'), t, Cardinality(Tokens)) >= 1
                     THEN /\ SingletonState(registry'[t]) = "Pending"
                          /\ Cardinality(LastAttemptsOf(calls', attempts', t)) = 1
                     ELSE /\ registry'[t] = registry[t]
                          /\ LastAttemptsOf(calls', attempts', t) = {}
               /\ (IsSingleton(registry, t) /\ SingletonState(registry[t]) # "Unresolved") =>
                     /\ registry'[t] = registry[t]
                     /\ LastAttemptsOf(calls', attempts', t) = {}

\* C19, amended: all the dependency requests of a resolve call are issued
\* before the call returns and before any promise job runs: when resolve
\* returns, every registered Singleton that was Unresolved and that the
\* walk reaches through requires without passing through a Singleton that
\* was already Pending (or Resolved) is Pending, with one creation attempt
\* however many paths lead to it, while a Transient token has one
\* resolveFactory invocation (hence one create) per path.  A Singleton that
\* is only reachable through one that was already Pending is not touched.
C19_WalkIssuesAll == [][C19_WalkStep]_vars

\* One resolve(factory) reached a token both directly and through another
\* token's requires: registered as a Transient it has two attempts of that
\* call, each with a create of its own.
C19_Witness ==
    \E i \in FactoryCalls, t \in SpecTokens :
        /\ IsTransient(registry[t])
        /\ registry[t].bound
        /\ Cardinality({k \in (calls[i].from + 1)..calls[i].to :
                           attempts[k].owner = t /\ attempts[k].creates = 1}) = 2
        /\ heap[calls[i].p].state = "fulfilled"

\* C20: with the registry acyclic, every resolve call that has been made
\* eventually settles and a Pending Singleton eventually stops being
\* Pending, provided the runtime keeps running the queued promise jobs and
\* every promise handed back by a create settles.
C20_EverySettles ==
    /\ []C4_RegistryAcyclic
    /\ \A n \in 1..MaxResolves :
          (Len(calls) >= n) ~> (Len(calls) >= n /\ heap[calls[n].p].state # "pending")
    /\ \A t \in Tokens :
          (SingletonState(registry[t]) = "Pending")
              ~> (SingletonState(registry[t]) # "Pending")

\* Everything has run to the end: two resolve calls, one of which waited for
\* a promise handed back by a create, have settled and no Singleton is
\* Pending.
C20_Witness ==
    /\ Len(calls) = 2
    /\ Quiescent
    /\ \E q \in DOMAIN heap : heap[q].ext
    /\ \A i \in DOMAIN calls : heap[calls[i].p].state # "pending"
    /\ \E t \in Tokens : registry[t].resolved
    /\ \A t \in Tokens : SingletonState(registry[t]) # "Pending"

\* The private fields of every resolver fit one of the three states.
C21_OneState ==
    \A t \in Tokens :
        LET res == registry[t]
        IN  /\ ~(res.resolved /\ res.promise # 0)
            /\ res.resolved <=> res.value # NoVal
            /\ res.resolved => res.value.kind = "inst"
            /\ (res.resolved \/ res.promise # 0) => IsSingleton(registry, t)
            /\ res.promise # 0 =>
                  /\ res.promise \in DOMAIN heap
                  /\ heap[res.promise].state = "pending"
                  /\ AttemptsOf(t) # {}
                  /\ attempts[Max(AttemptsOf(t))].outcome = NoVal

\* The job at the head of the queue is the completion handler that the
\* latest attempt of token t attached to the promise stored in t's resolver.
OwnHandlerRuns(t) ==
    /\ jobs # <<>>
    /\ Head(jobs).kind = "reaction"
    /\ Head(jobs).reaction.kind = "singleton"
    /\ Head(jobs).reaction.token = t
    /\ Head(jobs).reaction.target = registry[t].promise
    /\ Head(jobs).reaction.att = Max(AttemptsOf(t))
    /\ jobs' # jobs
    /\ calls' = calls
    /\ attempts[Max(AttemptsOf(t))].outcome = NoVal
    /\ attempts'[Max(AttemptsOf(t))].outcome # NoVal

\* One step: the cached value is written once, by the handler, on the way
\* from Pending to Resolved; the pending marker is set by a resolve call that
\* starts an attempt on an Unresolved resolver and cleared by that attempt's
\* handler alone.
C21_Step ==
    \A t \in Tokens :
        /\ registry'[t].value # registry[t].value =>
              /\ registry[t].value = NoVal
              /\ ~registry[t].resolved
              /\ registry'[t].resolved
              /\ Head(jobs).ok
              /\ registry'[t].value = Head(jobs).arg
              /\ OwnHandlerRuns(t)
        /\ registry'[t].resolved # registry[t].resolved =>
              registry'[t].value # registry[t].value
        /\ (registry[t].promise # 0 /\ registry'[t].promise # registry[t].promise) =>
              /\ registry'[t].promise = 0
              /\ OwnHandlerRuns(t)
        /\ (registry[t].promise = 0 /\ registry'[t].promise # 0) =>
              /\ ~registry[t].resolved
              /\ Len(calls') = Len(calls) + 1
              /\ registry'[t].promise \notin DOMAIN heap
              /\ \E k \in DOMAIN attempts' \ DOMAIN attempts :
                    /\ attempts'[k].owner = t
                    /\ attempts'[k].outcome = NoVal

\* C21: a SingletonResolver is always in exactly one of Unresolved, Pending
\* and Resolved, never both resolved and pending; its cached value is written
\* at most once; and its pending promise is cleared only by the completion
\* handler of the attempt that set it.
C21_ExactlyOneState == [][C21_Step]_vars /\ []C21_OneState

\* A singleton went round the states: its first attempt failed and cleared
\* the marker, its second attempt cached the value.
C21_Witness ==
    \E t \in Tokens :
        /\ registry[t].resolved
        /\ Cardinality(AttemptsOf(t)) = 2
        /\ \E k \in AttemptsOf(t) : attempts[k].outcome.kind \in ErrorKinds
        /\ \E k \in AttemptsOf(t) : attempts[k].outcome = registry[t].value

====
